---- MODULE Spec2Model ----
(***************************************************************************)
(* FC01 VFD monitor: the Modbus transaction layer (vfd_modbus.py) and the  *)
(* connection / polling / control layer of the Tk application              *)
(* (vfd_monitor_tk.py), as a state machine.                                *)
(*                                                                         *)
(* Threads: the Tk main thread (connect, disconnect, send_control,         *)
(* set_freq, process_ui_queue), the poll threads started by start_polling  *)
(* and the fire-and-forget job threads started by send_control / set_freq. *)
(* A step of a thread is one access to shared state (self.modbus, the      *)
(* stop event, a VFDModbus lock, the serial handle, ui_queue) together     *)
(* with the thread-local computation that follows it.                      *)
(*                                                                         *)
(* Not modelled: wall-clock timestamps ("ts"), widgets, charts.  The       *)
(* serial device and pymodbus are the environment: every wire call ends    *)
(* in one of the outcomes of WireOutcomes.                                 *)
(***************************************************************************)
EXTENDS Integers, Sequences, FiniteSets, TLC

\* ------------------------------------------------------------------ bounds
MaxPollThreads == 2     \* poll thread objects that can exist at once
MaxJobs == 1            \* job threads that can exist at once
MaxTransports == 2      \* VFDModbus objects that can exist at once
MaxQueue == 1           \* events pending in ui_queue at once
MaxPuts == 4             \* events put on ui_queue in a run of SpecChannel
MaxNow == 1500           \* SpecCadence: no cycle starts after this time (ms)
MaxOps == 4              \* SpecClose: open() / close() calls on the Transport
MaxCycles == 3           \* SpecSnapshot: poll cycles run
MaxCode == 255          \* exception bytes decoded by SpecLayer: 0..MaxCode

\* ------------------------------------------------------- program constants
REG_FREQ == 12289       \* 0x3001
REG_BUS_VOLT == 12290   \* 0x3002
REG_CONTROL == 8192     \* 0x2000
REG_SET_FREQ == 8193    \* 0x2001

None == 0               \* self.modbus = None / self.poll_thread = None
Unlocked == 0           \* threading.Lock() not held

Pollers == 1..MaxPollThreads
Jobs == (MaxPollThreads + 1)..(MaxPollThreads + MaxJobs)
Threads == Pollers \cup Jobs
Transports == 1..MaxTransports

NoVal == <<>>           \* Python None held in a local (regs, freq)
NoText == ""            \* no exception caught

\* ------------------------------------------------------------ pure helpers
HexDigit == <<"0","1","2","3","4","5","6","7","8","9","A","B","C","D","E","F">>

\* format(n, "X"): uppercase hexadecimal, no padding
RECURSIVE HexUpper(_)
HexUpper(n) == IF n < 16 THEN HexDigit[n + 1]
               ELSE HexUpper(n \div 16) \o HexDigit[(n % 16) + 1]

RECURSIVE HexLen(_)
HexLen(n) == IF n < 16 THEN 1 ELSE 1 + HexLen(n \div 16)

RECURSIVE Zeros(_)
Zeros(k) == IF k <= 0 THEN "" ELSE "0" \o Zeros(k - 1)

\* f"{n:0<w>X}": zero-padded to at least w digits
FormatHex(n, w) == Zeros(w - HexLen(n)) \o HexUpper(n)

EXCEPTION_DICT ==
    (1 :> "Illegal command") @@
    (2 :> "Illegal data address") @@
    (3 :> "Illegal value (bad frame)") @@
    (4 :> "Operation failed") @@
    (5 :> "Password error") @@
    (6 :> "Data frame error (CRC/format)") @@
    (7 :> "Write not allowed") @@
    (8 :> "Parameter cannot be changed during running") @@
    (9 :> "Password protection active")

decode_exception_code_unpadded(code) ==
    IF code \in DOMAIN EXCEPTION_DICT THEN EXCEPTION_DICT[code]
    ELSE "Unknown exception code 0x" \o HexUpper(code)

decode_exception_code(code) ==
    IF code \in DOMAIN EXCEPTION_DICT THEN EXCEPTION_DICT[code]
    ELSE "Unknown exception code 0x" \o FormatHex(code, 2)

\* freq_raw / 100.0 as an exact two-decimal fixed-point number <<Hz, 1/100 Hz>>
ScaleFreq(raw) == <<raw \div 100, raw % 100>>

\* ---------------------------------------------------------- the wire (env)
BlockVals == { <<540, 380, 42, 1450>> }
FreqRaws == { 5000 }
ExcCodes == { 4 }
RaiseTexts == { "timeout" }
ErrTexts == { "Modbus Error: [Input/Output] No response" }

\* a request on the wire: <<"read", address, count>> or <<"write", address, value>>
NoRequest == <<"none", 0, 0>>

Outcome(q, k, r, c, x) == [req |-> q, kind |-> k, regs |-> r, code |-> c, text |-> x]
NoOutcome == Outcome(NoRequest, "none", <<>>, 0, "")

\* what the pymodbus call of a request can end in: registers / an
\* acknowledgement ("ok"), a raised exception ("raise"), an exception response
\* with an exception_code ("exc"), an error result without one ("err")
WireOutcomes(q) ==
    { Outcome(q, "ok", r, 0, "") :
        r \in IF q[1] = "write" THEN { <<>> }
              ELSE IF q[3] = 4 THEN BlockVals ELSE { <<f>> : f \in FreqRaws } }
    \cup { Outcome(q, "raise", <<>>, 0, x) : x \in RaiseTexts }
    \cup { Outcome(q, "exc", <<>>, c, "") : c \in ExcCodes }

\* read_regs / write_reg after the wire call: the value returned, or the text
\* of the IOError raised
TxnError(o) ==
    IF o.kind = "raise" THEN "Comm error: " \o o.text
    ELSE IF o.kind = "exc" THEN "VFD Exception: " \o decode_exception_code(o.code)
    ELSE IF o.kind = "err" THEN "VFD Exception: " \o o.text
    ELSE NoText

AttributeErrorText(method) ==
    "'NoneType' object has no attribute '" \o method \o "'"

\* ------------------------------------------------------------------ events
Event(ty, m, d) == [type |-> ty, msg |-> m, data |-> d]
DataEvent(f, r) == Event("data", "", <<f, r[1], r[2], r[3], r[4]>>)
FaultEvent(m) == Event("fault", m, <<>>)
LogEvent(m) == Event("log", m, <<>>)

\* ---------------------------------------------------------------- commands
Commands == { "Forward", "Reverse", "Stop", "EStop", "Reset" }
CommandInputs == { "Stop" }
ControlCode(cmd) ==
    CASE cmd = "Forward" -> 1
      [] cmd = "Reverse" -> 2
      [] cmd = "Stop"    -> 5
      [] cmd = "EStop"   -> 6
      [] cmd = "Reset"   -> 7
FreqInputs == { 5000 }

\* ------------------------------------------------------------------- state
VARIABLES
    modbus,           \* self.modbus: None or the VFDModbus object held
    poll_thread,      \* self.poll_thread: None or a poll thread object
    poll_stop_event,  \* self.poll_stop_event.is_set()
    ui_queue,         \* self.ui_queue, oldest event first
    lock,             \* VFDModbus.lock of each object: Unlocked or its owner
    opened,           \* whether each object is open: open() returned True and
                      \* close() has not returned since
    ui_pc,            \* position of the Tk main thread
    pc,               \* position of each poll / job thread ("dead": not running)
    ph,               \* phase of the thread's read_regs / write_reg call
    tm,               \* the VFDModbus object the thread's call is bound to
    regs,             \* poll_loop local: regs
    freq,             \* poll_loop local: freq
    exc,              \* text of the exception the thread has caught
    task,             \* job closure: what the job was spawned to write
    o1,               \* history: wire outcome of the cycle's block read / the job's write
    o2,               \* history: wire outcome of the cycle's frequency read
    cancelled,        \* history: disconnect() set the stop event for this loop
    dcode,            \* layer harness: exception byte under test
    dmsg,             \* layer harness: decode_exception_code(dcode), once computed
    dout,             \* layer harness: a failed wire outcome under test
    derr,             \* layer harness: text of the IOError raised for dout
    last_fault_msg,   \* self.last_fault_msg: <<>> for None, else <<text>>
    fault_tree,       \* messages of the rows of self.fault_tree, oldest first
    popups,           \* messages shown by messagebox.showerror, oldest first
    put_log,          \* history: every event put on ui_queue, in order
    seen,             \* history: every event process_ui_queue dispatched, in order
    tick_seen,        \* history: Len(seen) when the current / last tick began
    tick_pending,     \* history: ui_queue when the current / last tick began
    c_phase,          \* cadence harness: position in the poll cycle
    c_now,            \* cadence harness: time.time(), in ms
    c_interval,       \* cadence harness: self.poll_interval, in ms
    c_t0,             \* cadence harness: poll_loop local t0
    c_elapsed,        \* history: time the cycle's work took
    c_sleep,          \* history: argument of the cycle's time.sleep
    k_handle,         \* close harness: the pymodbus client's serial handle
    k_raised,         \* close harness: an exception has left close()
    k_prev,           \* history: k_handle before the last call
    k_hist,           \* history: the calls made and how the handle answered
    y_pc,             \* snapshot harness: position in the poll cycle
    y_regs,           \* snapshot harness: poll_loop local regs, kept across cycles
    y_freq,           \* snapshot harness: poll_loop local freq, kept across cycles
    y_exc,            \* snapshot harness: text of the exception caught
    y_o1,             \* history: wire outcome of the cycle's block read
    y_o2,             \* history: wire outcome of the cycle's frequency read
    y_events          \* history: the events the loop has put, in order

appVars == << modbus, poll_thread, poll_stop_event, ui_queue, lock, opened, ui_pc,
              pc, ph, tm, regs, freq, exc, task, o1, o2, cancelled >>
conVars == << last_fault_msg, fault_tree, popups, put_log, seen, tick_seen, tick_pending >>
layerVars == << dcode, dmsg, dout, derr >>
cadVars == << c_phase, c_now, c_interval, c_t0, c_elapsed, c_sleep >>
closeVars == << k_handle, k_raised, k_prev, k_hist >>
snapVars == << y_pc, y_regs, y_freq, y_exc, y_o1, y_o2, y_events >>
decVars == << layerVars, conVars, cadVars, closeVars, snapVars >>
vars == << appVars, decVars >>

uiVars == << modbus, poll_thread, poll_stop_event, ui_pc >>
busVars == << lock, opened >>
localVars == << regs, freq, exc >>
histVars == << o1, o2, cancelled >>

NoTask == [kind |-> "none", addr |-> 0, value |-> 0]

\* state after VFDMonitorApp.__init__
AppInit ==
    /\ modbus = None
    /\ poll_thread = None
    /\ poll_stop_event = FALSE
    /\ ui_queue = <<>>
    /\ lock = [m \in Transports |-> Unlocked]
    /\ opened = [m \in Transports |-> FALSE]
    /\ ui_pc = "idle"
    /\ pc = [t \in Threads |-> "dead"]
    /\ ph = [t \in Threads |-> "none"]
    /\ tm = [t \in Threads |-> None]
    /\ regs = [t \in Threads |-> NoVal]
    /\ freq = [t \in Threads |-> NoVal]
    /\ exc = [t \in Threads |-> NoText]
    /\ task = [t \in Threads |-> NoTask]
    /\ o1 = [t \in Threads |-> NoOutcome]
    /\ o2 = [t \in Threads |-> NoOutcome]
    /\ cancelled = [t \in Threads |-> FALSE]

\* the consumer's state after VFDMonitorApp.__init__
ConInit ==
    /\ last_fault_msg = <<>>
    /\ fault_tree = <<>>
    /\ popups = <<>>
    /\ put_log = <<>>
    /\ seen = <<>>
    /\ tick_seen = 0
    /\ tick_pending = <<>>

\* no poll cycle under way on the cadence clock
CadInit ==
    /\ c_phase = "top"
    /\ c_now = 0
    /\ c_interval = 0
    /\ c_t0 = 0
    /\ c_elapsed = 0
    /\ c_sleep = 0

\* a VFDModbus just constructed: the handle was never opened
CloseInit ==
    /\ k_handle = "never"
    /\ k_raised = FALSE
    /\ k_prev = "never"
    /\ k_hist = <<>>

\* poll_loop entered, no cycle run yet, its locals not yet bound
SnapInit ==
    /\ y_pc = "top"
    /\ y_regs = NoVal
    /\ y_freq = NoVal
    /\ y_exc = NoText
    /\ y_o1 = NoOutcome
    /\ y_o2 = NoOutcome
    /\ y_events = <<>>

Init ==
    /\ AppInit
    /\ ConInit
    /\ CadInit
    /\ CloseInit
    /\ SnapInit
    /\ dcode = 0
    /\ dmsg = NoText
    /\ dout = NoOutcome
    /\ derr = NoText

\* ------------------------------------------------------------ thread helpers
is_alive(t) == pc[t] # "dead"

\* a VFDModbus object nothing refers to any more can be the next one created
Unreferenced(m) == m # modbus /\ \A t \in Threads : tm[t] # m

\* object identity is arbitrary: the next object created is the lowest free one
Lowest(S) == CHOOSE x \in S : \A y \in S : x <= y
FreeTransports == { m \in Transports : Unreferenced(m) }
FreePollers == { t \in Pollers : ~is_alive(t) }
FreeJobs == { t \in Jobs : ~is_alive(t) }

\* the thread is inside `with self.lock:` of read_regs / write_reg
InSection(t) == ph[t] = "io"

\* ------------------------------------------------------ VFDModbus.read_regs /
\* write_reg, step by step

\* `with self.lock:` entered (blocks until the lock is free); the transaction is
\* in flight: time.sleep(0.02), then the pymodbus call
AcquireUnguarded(t) ==
    /\ ph[t] = "wait"
    /\ lock' = [lock EXCEPT ![tm[t]] = t]
    /\ ph' = [ph EXCEPT ![t] = "io"]
    /\ UNCHANGED << uiVars, ui_queue, opened, pc, tm, localVars, task, histVars, decVars >>

Acquire(t) ==
    /\ ph[t] = "wait"
    /\ lock[tm[t]] = Unlocked
    /\ lock' = [lock EXCEPT ![tm[t]] = t]
    /\ ph' = [ph EXCEPT ![t] = "io"]
    /\ UNCHANGED << uiVars, ui_queue, opened, pc, tm, localVars, task, histVars, decVars >>

\* leaving `with self.lock:` by return or by raise
ReleaseOnReturnOnly(t, o) ==
    IF o.kind = "ok" THEN [lock EXCEPT ![tm[t]] = Unlocked] ELSE lock

Release(t, o) == [lock EXCEPT ![tm[t]] = Unlocked]

\* ------------------------------------------------------- poll_loop (a thread)

\* the thread function returns: the thread object is dead, its locals are gone
Exit(t) ==
    /\ pc' = [pc EXCEPT ![t] = "dead"]
    /\ tm' = [tm EXCEPT ![t] = None]
    /\ regs' = [regs EXCEPT ![t] = NoVal]
    /\ freq' = [freq EXCEPT ![t] = NoVal]
    /\ exc' = [exc EXCEPT ![t] = NoText]
    /\ task' = [task EXCEPT ![t] = NoTask]
    /\ o1' = [o1 EXCEPT ![t] = NoOutcome]
    /\ o2' = [o2 EXCEPT ![t] = NoOutcome]
    /\ cancelled' = [cancelled EXCEPT ![t] = FALSE]

\* time.sleep(max(0, self.poll_interval - (time.time() - t0))) returns (a new
\* thread starts here too), then `while not self.poll_stop_event.is_set()`
PollGuardEvent(t) ==
    /\ pc[t] = "sleep"
    /\ IF poll_stop_event
       THEN Exit(t)
       ELSE /\ pc' = [pc EXCEPT ![t] = "guard2"]
            /\ UNCHANGED << tm, localVars, task, histVars >>
    /\ UNCHANGED << uiVars, ui_queue, busVars, ph, decVars >>

\* `and self.modbus:`; the cycle starts (t0 = time.time())
PollGuardModbus(t) ==
    /\ pc[t] = "guard2"
    /\ IF modbus = None
       THEN Exit(t)
       ELSE /\ pc' = [pc EXCEPT ![t] = "read1"]
            /\ UNCHANGED << tm, localVars, task, histVars >>
    /\ UNCHANGED << uiVars, ui_queue, busVars, ph, decVars >>

\* `self.modbus.read_regs(REG_BUS_VOLT, 4)`: self.modbus is looked up again;
\* on None the AttributeError is caught by the outer `except Exception as e`
PollCall1(t) ==
    /\ pc[t] = "read1" /\ ph[t] = "none"
    /\ IF modbus = None
       THEN /\ exc' = [exc EXCEPT ![t] = AttributeErrorText("read_regs")]
            /\ pc' = [pc EXCEPT ![t] = "emitF"]
            /\ UNCHANGED << ph, tm >>
       ELSE /\ tm' = [tm EXCEPT ![t] = modbus]
            /\ ph' = [ph EXCEPT ![t] = "wait"]
            /\ UNCHANGED << pc, exc >>
    /\ UNCHANGED << uiVars, ui_queue, busVars, regs, freq, task, histVars, decVars >>

\* the block read ends: `bus, outv, curr, speed = regs`, or the outer except
AfterBlockFatal(t, o) ==
    IF o.kind = "ok"
    THEN /\ o1' = [o1 EXCEPT ![t] = o]
         /\ pc' = [pc EXCEPT ![t] = "read2"]
         /\ regs' = [regs EXCEPT ![t] = o.regs]
         /\ UNCHANGED << exc, freq, task, o2, cancelled >>
    ELSE Exit(t)

AfterBlock(t, o) ==
    /\ o1' = [o1 EXCEPT ![t] = o]
    /\ IF o.kind = "ok"
       THEN /\ pc' = [pc EXCEPT ![t] = "read2"]
            /\ regs' = [regs EXCEPT ![t] = o.regs]
            /\ UNCHANGED exc
       ELSE /\ pc' = [pc EXCEPT ![t] = "emitF"]
            /\ exc' = [exc EXCEPT ![t] = TxnError(o)]
            /\ UNCHANGED regs
    /\ UNCHANGED << freq, task, o2, cancelled >>

PollDone1(t) ==
    /\ pc[t] = "read1" /\ ph[t] = "io"
    /\ \E o \in WireOutcomes(<<"read", REG_BUS_VOLT, 4>>) :
          /\ lock' = Release(t, o)
          /\ AfterBlock(t, o)
    /\ ph' = [ph EXCEPT ![t] = "none"]
    /\ tm' = [tm EXCEPT ![t] = None]
    /\ UNCHANGED << uiVars, ui_queue, opened, decVars >>

\* `self.modbus.read_regs(REG_FREQ, 1)[0]`; on None the AttributeError is
\* caught by the inner `except Exception: freq = None`
PollCall2(t) ==
    /\ pc[t] = "read2" /\ ph[t] = "none"
    /\ IF modbus = None
       THEN /\ freq' = [freq EXCEPT ![t] = NoVal]
            /\ pc' = [pc EXCEPT ![t] = "emitD"]
            /\ UNCHANGED << ph, tm >>
       ELSE /\ tm' = [tm EXCEPT ![t] = modbus]
            /\ ph' = [ph EXCEPT ![t] = "wait"]
            /\ UNCHANGED << pc, freq >>
    /\ UNCHANGED << uiVars, ui_queue, busVars, regs, exc, task, histVars, decVars >>

\* the value bound to freq when the frequency read ends:
\* `freq = freq_raw / 100.0`, or `freq = None` in the inner except
FreqLocalStale(old, o) == IF o.kind = "ok" THEN ScaleFreq(o.regs[1]) ELSE old

FreqLocal(old, o) == IF o.kind = "ok" THEN ScaleFreq(o.regs[1]) ELSE NoVal

\* the frequency read ends
AfterFreqFatal(t, o) ==
    /\ o2' = [o2 EXCEPT ![t] = o]
    /\ IF o.kind = "ok"
       THEN /\ pc' = [pc EXCEPT ![t] = "emitD"]
            /\ freq' = [freq EXCEPT ![t] = ScaleFreq(o.regs[1])]
            /\ UNCHANGED exc
       ELSE /\ pc' = [pc EXCEPT ![t] = "emitF"]
            /\ exc' = [exc EXCEPT ![t] = TxnError(o)]
            /\ UNCHANGED freq

AfterFreq(t, o) ==
    /\ o2' = [o2 EXCEPT ![t] = o]
    /\ pc' = [pc EXCEPT ![t] = "emitD"]
    /\ freq' = [freq EXCEPT ![t] = FreqLocal(freq[t], o)]
    /\ UNCHANGED exc

PollDone2(t) ==
    /\ pc[t] = "read2" /\ ph[t] = "io"
    /\ \E o \in WireOutcomes(<<"read", REG_FREQ, 1>>) :
          /\ lock' = Release(t, o)
          /\ AfterFreq(t, o)
    /\ ph' = [ph EXCEPT ![t] = "none"]
    /\ tm' = [tm EXCEPT ![t] = None]
    /\ UNCHANGED << uiVars, ui_queue, opened, regs, task, o1, cancelled, decVars >>

\* the event the cycle puts on ui_queue
PollData(t) == DataEvent(freq[t], regs[t])

PollFaultGeneric(t) == FaultEvent("poll failed")

PollFault(t) == FaultEvent(exc[t])

\* self.ui_queue.put(("data", {...})); the cycle's work is over.  regs and
\* freq are bound again before the loop next reads them (SpecSnapshot keeps
\* them across cycles), so what they hold after the put is forgotten here
PollEmitData(t) ==
    /\ pc[t] = "emitD"
    /\ Len(ui_queue) < MaxQueue
    /\ ui_queue' = Append(ui_queue, PollData(t))
    /\ pc' = [pc EXCEPT ![t] = "sleep"]
    /\ regs' = [regs EXCEPT ![t] = NoVal]
    /\ freq' = [freq EXCEPT ![t] = NoVal]
    /\ o1' = [o1 EXCEPT ![t] = NoOutcome]
    /\ o2' = [o2 EXCEPT ![t] = NoOutcome]
    /\ UNCHANGED << uiVars, busVars, ph, tm, exc, task, cancelled, decVars >>

\* self.ui_queue.put(("fault", str(e))); the cycle's work is over
PollEmitFault(t) ==
    /\ pc[t] = "emitF"
    /\ Len(ui_queue) < MaxQueue
    /\ ui_queue' = Append(ui_queue, PollFault(t))
    /\ pc' = [pc EXCEPT ![t] = "sleep"]
    /\ exc' = [exc EXCEPT ![t] = NoText]
    /\ o1' = [o1 EXCEPT ![t] = NoOutcome]
    /\ o2' = [o2 EXCEPT ![t] = NoOutcome]
    /\ UNCHANGED << uiVars, busVars, ph, tm, regs, freq, task, cancelled, decVars >>

\* -------------------------------------- send_control / set_freq job (a thread)

\* `self.modbus.write_reg(addr, value)`: self.modbus is looked up when the job
\* runs; on None the AttributeError is caught by the job's `except Exception`
JobCall(t) ==
    /\ pc[t] = "write" /\ ph[t] = "none"
    /\ IF modbus = None
       THEN /\ exc' = [exc EXCEPT ![t] = AttributeErrorText("write_reg")]
            /\ pc' = [pc EXCEPT ![t] = "emitF"]
            /\ UNCHANGED << ph, tm >>
       ELSE /\ tm' = [tm EXCEPT ![t] = modbus]
            /\ ph' = [ph EXCEPT ![t] = "wait"]
            /\ UNCHANGED << pc, exc >>
    /\ UNCHANGED << uiVars, ui_queue, busVars, regs, freq, task, histVars, decVars >>

\* the write ends: True, or the IOError caught by the job
AfterWriteRetry(t, o) ==
    /\ o1' = [o1 EXCEPT ![t] = o]
    /\ pc' = [pc EXCEPT ![t] = IF o.kind = "ok" THEN "emitL" ELSE "write"]
    /\ UNCHANGED exc

AfterWrite(t, o) ==
    /\ o1' = [o1 EXCEPT ![t] = o]
    /\ IF o.kind = "ok"
       THEN /\ pc' = [pc EXCEPT ![t] = "emitL"]
            /\ UNCHANGED exc
       ELSE /\ pc' = [pc EXCEPT ![t] = "emitF"]
            /\ exc' = [exc EXCEPT ![t] = TxnError(o)]

JobDone(t) ==
    /\ pc[t] = "write" /\ ph[t] = "io"
    /\ \E o \in WireOutcomes(<<"write", task[t].addr, task[t].value>>) :
          /\ lock' = Release(t, o)
          /\ AfterWrite(t, o)
    /\ ph' = [ph EXCEPT ![t] = "none"]
    /\ tm' = [tm EXCEPT ![t] = None]
    /\ UNCHANGED << uiVars, ui_queue, opened, regs, freq, task, o2, cancelled, decVars >>

JobLog(t) ==
    LogEvent(IF task[t].kind = "control"
             THEN "Control 0x" \o FormatHex(task[t].value, 4) \o " sent"
             ELSE "Freq set to " \o ToString(task[t].value))

JobFault(t) ==
    FaultEvent((IF task[t].kind = "control" THEN "Control failed: "
                ELSE "Set freq failed: ") \o exc[t])

\* self.ui_queue.put(("log", ...)); the job thread ends
JobEmitLog(t) ==
    /\ pc[t] = "emitL"
    /\ Len(ui_queue) < MaxQueue
    /\ ui_queue' = Append(ui_queue, JobLog(t))
    /\ Exit(t)
    /\ UNCHANGED << uiVars, busVars, ph, decVars >>

\* self.ui_queue.put(("fault", ...)); the job thread ends
JobEmitFault(t) ==
    /\ pc[t] = "emitF"
    /\ Len(ui_queue) < MaxQueue
    /\ ui_queue' = Append(ui_queue, JobFault(t))
    /\ Exit(t)
    /\ UNCHANGED << uiVars, busVars, ph, decVars >>

\* ------------------------------------------------------- the Tk main thread

threadVars == << pc, ph, tm, localVars, task, histVars >>

\* start_polling(): a no-op while self.poll_thread is alive; otherwise
\* int(self.poll_entry.get()) (ValueError on a non-numeric interval, reported by
\* toggle_connect), poll_stop_event.clear(), a new poll thread is started
start_polling(valid) ==
    IF poll_thread # None /\ is_alive(poll_thread)
    THEN UNCHANGED << poll_thread, poll_stop_event, pc >>
    ELSE IF valid
         THEN /\ poll_stop_event' = FALSE
              /\ FreePollers # {}
              /\ poll_thread' = Lowest(FreePollers)
              /\ pc' = [pc EXCEPT ![Lowest(FreePollers)] = "sleep"]
         ELSE UNCHANGED << poll_thread, poll_stop_event, pc >>

\* toggle_connect with self.modbus None -> connect():
\* self.modbus = VFDModbus(...) (a new object: its own lock, handle not open),
\* ok = self.modbus.open() (on False or an exception self.modbus = None, return),
\* then start_polling().  The main thread does not block in connect(), and
\* what the other threads can observe of its intermediate states they can
\* observe before or after it, so it is one step.
Connect ==
    /\ ui_pc = "idle"
    /\ modbus = None
    /\ \E ok \in BOOLEAN, valid \in BOOLEAN :
          IF ok
          THEN /\ FreeTransports # {}
               /\ modbus' = Lowest(FreeTransports)
               /\ opened' = [opened EXCEPT ![Lowest(FreeTransports)] = TRUE]
               /\ start_polling(valid)
          ELSE UNCHANGED << modbus, opened, poll_thread, poll_stop_event, pc >>
    /\ UNCHANGED << ui_queue, lock, ui_pc, ph, tm, localVars, task, histVars, decVars >>

\* toggle_connect with self.modbus held -> disconnect():
\* `if self.poll_thread: self.poll_stop_event.set()`
DisconnectSignal ==
    /\ ui_pc = "idle"
    /\ modbus # None
    /\ IF poll_thread # None
       THEN /\ poll_stop_event' = TRUE
            /\ cancelled' = [cancelled EXCEPT ![poll_thread] = is_alive(poll_thread)]
            /\ ui_pc' = "d_join"
       ELSE /\ ui_pc' = "d_close"
            /\ UNCHANGED << poll_stop_event, cancelled >>
    /\ UNCHANGED << modbus, poll_thread, ui_queue, busVars, pc, ph, tm, localVars, task,
                    o1, o2, decVars >>

\* self.poll_thread.join(timeout=1.0) returns: the loop has exited, or 1 s has
\* passed while it is still in a transaction (pymodbus timeout 1 s, retried) or
\* in its cadence sleep (any configured interval); then self.poll_thread = None
JoinReturns(t) == TRUE

DisconnectJoin ==
    /\ ui_pc = "d_join"
    /\ JoinReturns(poll_thread)
    /\ poll_thread' = None
    /\ ui_pc' = "d_close"
    /\ UNCHANGED << modbus, poll_stop_event, ui_queue, busVars, threadVars, decVars >>

\* VFDModbus.close(): `with self.lock:` (blocks until the lock is free),
\* self.client.close() with any exception swallowed
closeWithoutLock(m) ==
    /\ opened' = [opened EXCEPT ![m] = FALSE]
    /\ UNCHANGED lock

close(m) ==
    /\ lock[m] = Unlocked
    /\ opened' = [opened EXCEPT ![m] = FALSE]
    /\ UNCHANGED lock

\* `if self.modbus: self.modbus.close()`, then self.modbus = None
DisconnectClose ==
    /\ ui_pc = "d_close"
    /\ close(modbus)
    /\ modbus' = None
    /\ ui_pc' = "idle"
    /\ UNCHANGED << poll_thread, poll_stop_event, ui_queue, threadVars, decVars >>

\* threading.Thread(target=job, daemon=True).start()
SpawnJob(k, a, v) ==
    /\ ui_pc = "idle"
    /\ modbus # None
    /\ FreeJobs # {}
    /\ pc' = [pc EXCEPT ![Lowest(FreeJobs)] = "write"]
    /\ task' = [task EXCEPT ![Lowest(FreeJobs)] = [kind |-> k, addr |-> a, value |-> v]]
    /\ UNCHANGED << uiVars, ui_queue, busVars, ph, tm, localVars, histVars, decVars >>

\* a control button: send_control(code)
SendControl == \E cmd \in CommandInputs : SpawnJob("control", REG_CONTROL, ControlCode(cmd))

\* the Set button: set_freq() with a numeric entry
SetFreq == \E v \in FreqInputs : SpawnJob("freq", REG_SET_FREQ, v)

\* process_ui_queue: get_nowait() until queue.Empty, then reschedule
ProcessTick ==
    /\ ui_pc = "idle"
    /\ ui_queue # <<>>
    /\ ui_queue' = Tail(ui_queue)
    /\ ui_pc' = "drain"
    /\ UNCHANGED << modbus, poll_thread, poll_stop_event, busVars, threadVars, decVars >>

ProcessNext ==
    /\ ui_pc = "drain"
    /\ IF ui_queue = <<>>
       THEN ui_pc' = "idle" /\ UNCHANGED ui_queue
       ELSE ui_queue' = Tail(ui_queue) /\ UNCHANGED ui_pc
    /\ UNCHANGED << modbus, poll_thread, poll_stop_event, busVars, threadVars, decVars >>

\* ------------------------------------------------------------ specification
PollStep(t) ==
    \/ PollGuardEvent(t)
    \/ PollGuardModbus(t)
    \/ PollCall1(t)
    \/ PollDone1(t)
    \/ PollCall2(t)
    \/ PollDone2(t)
    \/ PollEmitData(t)
    \/ PollEmitFault(t)

JobStep(t) ==
    \/ JobCall(t)
    \/ JobDone(t)
    \/ JobEmitLog(t)
    \/ JobEmitFault(t)

Next ==
    \/ Connect
    \/ DisconnectSignal
    \/ DisconnectJoin
    \/ DisconnectClose
    \/ SendControl
    \/ SetFreq
    \/ ProcessTick
    \/ ProcessNext
    \/ \E t \in Threads : Acquire(t)
    \/ \E t \in Pollers : PollStep(t)
    \/ \E t \in Jobs : JobStep(t)

Spec == Init /\ [][Next]_vars

\* ------------------------- the program with its threads scheduled fairly,
\* reconnecting only once the previous poll loop has exited

OneLoop == \A t \in Pollers : t # Lowest(Pollers) => pc[t] = "dead"

ConnectOneLoop == Connect /\ OneLoop'

NextTask ==
    \/ ConnectOneLoop
    \/ DisconnectSignal
    \/ DisconnectJoin
    \/ DisconnectClose
    \/ SendControl
    \/ SetFreq
    \/ ProcessTick
    \/ ProcessNext
    \/ \E t \in Threads : Acquire(t)
    \/ \E t \in Pollers : PollStep(t)
    \/ \E t \in Jobs : JobStep(t)

\* every started thread keeps running; a thread waiting for the lock gets it
\* if it is free again and again; queue.Queue() is unbounded, so a put goes
\* through whenever the consumer, which Tk reschedules every 150 ms, has made
\* room; the main thread finishes the handler it is in
Fairness ==
    /\ \A t \in Jobs : SF_vars(JobStep(t)) /\ SF_vars(Acquire(t))
    /\ \A t \in Pollers : WF_vars(PollStep(t)) /\ WF_vars(Acquire(t))
    /\ WF_vars(DisconnectJoin)
    /\ SF_vars(DisconnectClose)
    /\ SF_vars(ProcessTick)
    /\ WF_vars(ProcessNext)

SpecFair == Init /\ [][NextTask]_vars /\ Fairness

\* --------------- harness for the Modbus layer's pure parts (no threads run)
InitLayer ==
    /\ AppInit
    /\ ConInit
    /\ CadInit
    /\ CloseInit
    /\ SnapInit
    /\ dcode \in 0..MaxCode
    /\ dmsg = NoText
    /\ dout = NoOutcome
    /\ derr = NoText

\* decode_exception_code(dcode)
Decode ==
    /\ dmsg = NoText
    /\ dmsg' = decode_exception_code(dcode)
    /\ UNCHANGED << appVars, conVars, cadVars, closeVars, snapVars, dcode, dout, derr >>

LayerRequests == { <<"read", REG_BUS_VOLT, 4>>, <<"write", REG_CONTROL, 5>> }

\* the ways a pymodbus call can fail: it raises, it returns an exception
\* response with exception byte dcode, it returns an error without a code
LayerFailures ==
    { Outcome(q, "raise", <<>>, 0, x) : q \in LayerRequests, x \in RaiseTexts }
    \cup { Outcome(q, "exc", <<>>, dcode, "") : q \in LayerRequests }
    \cup { Outcome(q, "err", <<>>, 0, x) : q \in LayerRequests, x \in ErrTexts }

\* read_regs / write_reg whose pymodbus call fails: the IOError that leaves
Transact ==
    /\ dout = NoOutcome
    /\ \E o \in LayerFailures :
          /\ dout' = o
          /\ derr' = TxnError(o)
    /\ UNCHANGED << appVars, conVars, cadVars, closeVars, snapVars, dcode, dmsg >>

NextLayer == Decode \/ Transact

SpecLayer == InitLayer /\ [][NextLayer]_vars

\* ----------- harness for the event channel and its consumer: the producers
\* are reduced to their puts, the consumer runs process_ui_queue with its
\* handlers

\* events the poll loop and the jobs put
ChannelEvents ==
    { DataEvent(NoVal, r) : r \in BlockVals }
    \cup { FaultEvent(TxnError(Outcome(NoRequest, "raise", <<>>, 0, x))) : x \in RaiseTexts }
    \cup { FaultEvent(TxnError(Outcome(NoRequest, "exc", <<>>, c, ""))) : c \in ExcCodes }
    \cup { LogEvent("Control 0x" \o FormatHex(ControlCode(cmd), 4) \o " sent") :
               cmd \in CommandInputs }

appIdleVars == << modbus, poll_thread, poll_stop_event, lock, opened,
                  pc, ph, tm, regs, freq, exc, task, o1, o2, cancelled >>

\* self.ui_queue.put(...) by any producer thread
Put ==
    /\ Len(put_log) < MaxPuts
    /\ \E e \in ChannelEvents :
          /\ ui_queue' = Append(ui_queue, e)
          /\ put_log' = Append(put_log, e)
    /\ UNCHANGED << appIdleVars, ui_pc, layerVars, cadVars, closeVars, snapVars, last_fault_msg, fault_tree, popups,
                    seen, tick_seen, tick_pending >>

\* show_fault(msg): a row in the fault tree always, the popup only when the
\* text differs from self.last_fault_msg
show_fault_always(msg) ==
    /\ fault_tree' = Append(fault_tree, msg)
    /\ last_fault_msg' = << msg >>
    /\ popups' = Append(popups, msg)

show_fault(msg) ==
    /\ fault_tree' = Append(fault_tree, msg)
    /\ IF << msg >> # last_fault_msg
       THEN /\ last_fault_msg' = << msg >>
            /\ popups' = Append(popups, msg)
       ELSE UNCHANGED << last_fault_msg, popups >>

\* the tick Tk scheduled with root.after(150, ...) starts process_ui_queue
ConsumeTick ==
    /\ ui_pc = "idle"
    /\ ui_pc' = "drain"
    /\ tick_seen' = Len(seen)
    /\ tick_pending' = ui_queue
    /\ UNCHANGED << appIdleVars, ui_queue, layerVars, cadVars, closeVars, snapVars, last_fault_msg, fault_tree, popups,
                    put_log, seen >>

\* one turn of `while True`: get_nowait() and the handler of the event's type,
\* or queue.Empty and root.after(150, self.process_ui_queue)
ConsumeNextOnce ==
    /\ ui_pc = "drain"
    /\ IF ui_queue = <<>>
       THEN /\ ui_pc' = "idle"
            /\ UNCHANGED << ui_queue, seen, last_fault_msg, fault_tree, popups >>
       ELSE /\ ui_queue' = Tail(ui_queue)
            /\ seen' = Append(seen, Head(ui_queue))
            /\ ui_pc' = "idle"
            /\ IF Head(ui_queue).type = "fault"
               THEN show_fault(Head(ui_queue).msg)
               ELSE UNCHANGED << last_fault_msg, fault_tree, popups >>
    /\ UNCHANGED << appIdleVars, layerVars, cadVars, closeVars, snapVars, put_log, tick_seen, tick_pending >>

ConsumeNext ==
    /\ ui_pc = "drain"
    /\ IF ui_queue = <<>>
       THEN /\ ui_pc' = "idle"
            /\ UNCHANGED << ui_queue, seen, last_fault_msg, fault_tree, popups >>
       ELSE /\ ui_queue' = Tail(ui_queue)
            /\ seen' = Append(seen, Head(ui_queue))
            /\ UNCHANGED ui_pc
            /\ IF Head(ui_queue).type = "fault"
               THEN show_fault(Head(ui_queue).msg)
               ELSE UNCHANGED << last_fault_msg, fault_tree, popups >>
    /\ UNCHANGED << appIdleVars, layerVars, cadVars, closeVars, snapVars, put_log, tick_seen, tick_pending >>

NextChannel == Put \/ ConsumeTick \/ ConsumeNext

\* Tk runs the callback it was given with root.after, and the callback runs on
SpecChannel ==
    Init /\ [][NextChannel]_vars /\ WF_vars(ConsumeTick) /\ WF_vars(ConsumeNext)

\* ------- harness for the cadence of poll_loop on an integer clock (ms): the
\* cycle's work is reduced to the time it takes

\* int(self.poll_entry.get()): any integer is accepted
Intervals == { -100, 0, 350, 500 }
\* time from t0 to the evaluation of the sleep's argument
WorkTimes == { 0, 150, 500, 650 }
StartTimes == { 0, 7 }

InitCadence ==
    /\ AppInit
    /\ ConInit
    /\ CloseInit
    /\ SnapInit
    /\ dcode = 0 /\ dmsg = NoText /\ dout = NoOutcome /\ derr = NoText
    /\ c_phase = "top"
    /\ c_now \in StartTimes
    /\ c_interval \in Intervals
    /\ c_t0 = 0
    /\ c_elapsed = 0
    /\ c_sleep = 0

\* t0 = time.time()
CycleStart ==
    /\ c_phase \in { "top", "slept" }
    /\ c_now <= MaxNow
    /\ c_t0' = c_now
    /\ c_phase' = "work"
    /\ UNCHANGED << appVars, layerVars, conVars, closeVars, snapVars, c_now, c_interval, c_elapsed, c_sleep >>

\* the reads and the put of the cycle
CycleWork ==
    /\ c_phase = "work"
    /\ \E w \in WorkTimes :
          /\ c_now' = c_now + w
          /\ c_elapsed' = w
    /\ c_phase' = "sleep"
    /\ UNCHANGED << appVars, layerVars, conVars, closeVars, snapVars, c_interval, c_t0, c_sleep >>

\* max(0, self.poll_interval - (time.time() - t0))
SleepTimeUnclamped(interval, now, t0) == interval - (now - t0)

SleepTime(interval, now, t0) ==
    IF interval - (now - t0) > 0 THEN interval - (now - t0) ELSE 0

\* time.sleep(...) returns when the time has passed; back to the while
CycleSleep ==
    /\ c_phase = "sleep"
    /\ c_sleep' = SleepTime(c_interval, c_now, c_t0)
    /\ c_now' = c_now + c_sleep'
    /\ c_phase' = "slept"
    /\ UNCHANGED << appVars, layerVars, conVars, closeVars, snapVars, c_interval, c_t0, c_elapsed >>

NextCadence == CycleStart \/ CycleWork \/ CycleSleep

SpecCadence == InitCadence /\ [][NextCadence]_vars

\* ------------- harness for one VFDModbus object's open() and close(), with
\* the pymodbus client's handle reduced to never opened / open / closed

\* VFDModbus.open(): self.client.connect() returns True or False
Open ==
    /\ Len(k_hist) < MaxOps
    /\ k_handle # "open"
    /\ \E ok \in BOOLEAN :
          /\ k_handle' = IF ok THEN "open" ELSE k_handle
          /\ k_hist' = Append(k_hist, IF ok THEN "open ok" ELSE "open failed")
    /\ k_prev' = k_handle
    /\ UNCHANGED << appVars, layerVars, conVars, cadVars, snapVars, k_raised >>

\* what self.client.close() can leave behind: it returns with the handle
\* closed (a handle never opened stays so), or it raises, and then an open
\* handle is closed or is still open
ClientClose(h) ==
    { [handle |-> IF h = "open" THEN "closed" ELSE h, raises |-> FALSE] }
    \cup { [handle |-> x, raises |-> TRUE] :
              x \in IF h = "open" THEN { "open", "closed" } ELSE { h } }

\* VFDModbus.close(): `try: self.client.close()  except: pass`, under the lock
CloseRaising ==
    /\ Len(k_hist) < MaxOps
    /\ \E r \in ClientClose(k_handle) :
          /\ k_handle' = r.handle
          /\ k_raised' = (k_raised \/ r.raises)
          /\ k_hist' = Append(k_hist, IF r.raises THEN "close failed" ELSE "close ok")
    /\ k_prev' = k_handle
    /\ UNCHANGED << appVars, layerVars, conVars, cadVars, snapVars >>

Close ==
    /\ Len(k_hist) < MaxOps
    /\ \E r \in ClientClose(k_handle) :
          /\ k_handle' = r.handle
          /\ k_hist' = Append(k_hist, IF r.raises THEN "close failed" ELSE "close ok")
    /\ k_prev' = k_handle
    /\ UNCHANGED << appVars, layerVars, conVars, cadVars, snapVars, k_raised >>

NextClose == Open \/ Close

SpecClose == Init /\ [][NextClose]_vars

\* ------------ harness for the data path of poll_loop: one loop on its own,
\* its locals kept from cycle to cycle as Python keeps them

SnapFreqRaws == { 5000, 2550 }

\* how the block read can end
SnapBlockOutcomes == WireOutcomes(<<"read", REG_BUS_VOLT, 4>>)

\* how the frequency read can end: a value, an IOError, or the AttributeError
\* of self.modbus being None (no call made)
SnapFreqOutcomes ==
    { Outcome(<<"read", REG_FREQ, 1>>, "ok", << v >>, 0, "") : v \in SnapFreqRaws }
    \cup { o \in WireOutcomes(<<"read", REG_FREQ, 1>>) : o.kind # "ok" }
    \cup { NoOutcome }

\* regs = self.modbus.read_regs(REG_BUS_VOLT, 4); bus, outv, curr, speed = regs
SnapBlock ==
    /\ y_pc = "top"
    /\ Len(y_events) < MaxCycles
    /\ \E o \in SnapBlockOutcomes :
          /\ y_o1' = o
          /\ IF o.kind = "ok"
             THEN /\ y_regs' = o.regs
                  /\ y_pc' = "read2"
                  /\ UNCHANGED y_exc
             ELSE /\ y_exc' = TxnError(o)
                  /\ y_pc' = "emitF"
                  /\ UNCHANGED y_regs
    /\ y_o2' = NoOutcome
    /\ UNCHANGED << appVars, layerVars, conVars, cadVars, closeVars, y_freq, y_events >>

\* the inner try: freq_raw = self.modbus.read_regs(REG_FREQ, 1)[0] ...
SnapFreq ==
    /\ y_pc = "read2"
    /\ \E o \in SnapFreqOutcomes :
          /\ y_o2' = o
          /\ y_freq' = FreqLocal(y_freq, o)
    /\ y_pc' = "emitD"
    /\ UNCHANGED << appVars, layerVars, conVars, cadVars, closeVars,
                    y_regs, y_exc, y_o1, y_events >>

\* self.ui_queue.put(("data", {...})), sleep, back to the while
SnapEmitData ==
    /\ y_pc = "emitD"
    /\ y_events' = Append(y_events, DataEvent(y_freq, y_regs))
    /\ y_pc' = "top"
    /\ UNCHANGED << appVars, layerVars, conVars, cadVars, closeVars,
                    y_regs, y_freq, y_exc, y_o1, y_o2 >>

\* self.ui_queue.put(("fault", str(e))), sleep, back to the while
SnapEmitFault ==
    /\ y_pc = "emitF"
    /\ y_events' = Append(y_events, FaultEvent(y_exc))
    /\ y_pc' = "top"
    /\ UNCHANGED << appVars, layerVars, conVars, cadVars, closeVars,
                    y_regs, y_freq, y_exc, y_o1, y_o2 >>

NextSnapshot == SnapBlock \/ SnapFreq \/ SnapEmitData \/ SnapEmitFault

SpecSnapshot == Init /\ [][NextSnapshot]_vars

\* ------------------------------------------------------------------ claims

InFlight == { t \in Threads : InSection(t) }
AlivePollers == { t \in Pollers : is_alive(t) }

\* C1: at any instant at most one register transaction (settling delay plus
\* wire read/write) is in flight, whatever the interleaving of the poll loop's
\* reads and the spawned write tasks.
C1_OneTransactionInFlight == Cardinality(InFlight) <= 1

\* On one VFDModbus object the lock does serialise the transactions.
OneInFlightPerTransport ==
    \A m \in Transports : Cardinality({ t \in InFlight : tm[t] = m }) <= 1

\* C2: whenever no transaction is executing on a Transport its lock is free:
\* the lock is held only by a thread that is inside a transaction on that
\* Transport, so a transaction that failed has released it.
C2_LockFreeUnlessInTransaction ==
    \A m \in Transports :
        lock[m] # Unlocked =>
            /\ lock[m] \in Threads
            /\ InSection(lock[m])
            /\ tm[lock[m]] = m

\* the running poll loop's block read on the held Transport has just failed
\* (the loop holds the error, not yet reported) and a job is now in a
\* transaction on that same Transport
C2_Witness ==
    \E t1 \in Pollers, t2 \in Jobs :
        /\ poll_thread = t1
        /\ pc[t1] = "emitF"
        /\ o1[t1].kind \in { "raise", "exc" }
        /\ modbus # None
        /\ InSection(t2)
        /\ tm[t2] = modbus
        /\ lock[modbus] = t2

\* C3: at most one poll loop is alive at any time, across any sequence of
\* connect and disconnect.
C3_AtMostOnePollLoop == Cardinality(AlivePollers) <= 1

\* C4: once disconnect() has signalled cancellation to a running poll loop,
\* that loop never again finds the stop event clear: it starts no new cycle.
C4_CancelledLoopStartsNoCycle ==
    [][ \A t \in Pollers :
            (cancelled[t] /\ pc[t] = "sleep") => pc'[t] # "guard2" ]_vars

\* thread t takes a step
StepBy(t) == pc'[t] # pc[t] \/ ph'[t] # ph[t]

\* C5: a failed cycle never ends the poll loop: the loop exits only at its
\* guard, with cancellation signalled or the connection not held; after a
\* Fault it goes back to the guard, and with the event clear and the
\* connection held it starts another cycle.
C5_FaultDoesNotEndLoop ==
    [][ \A t \in Pollers : StepBy(t) =>
            /\ (is_alive(t) /\ ~is_alive(t)') =>
                    \/ pc[t] = "sleep" /\ poll_stop_event
                    \/ pc[t] = "guard2" /\ modbus = None
            /\ pc[t] = "emitF" => pc'[t] = "sleep"
            /\ (pc[t] = "sleep" /\ ~poll_stop_event) => pc'[t] = "guard2"
            /\ (pc[t] = "guard2" /\ modbus # None) => pc'[t] = "read1" ]_vars

\* the running loop has failed a second cycle while the Fault of an earlier
\* failed cycle is still pending on the channel
C5_Witness ==
    \E t \in Pollers :
        /\ poll_thread = t
        /\ ~cancelled[t]
        /\ pc[t] = "emitF"
        /\ o1[t].kind = "raise"
        /\ ui_queue = << FaultEvent("Comm error: timeout") >>

\* C6: in a cycle whose block read succeeded and whose frequency read fails
\* (for any reason), the cycle puts one Data event with the frequency absent
\* and the four values of the block read, and no Fault.
C6_PartialReadIsData ==
    [][ \A t \in Pollers : (StepBy(t) /\ o1[t].kind = "ok") =>
            /\ (pc[t] = "read2" /\ pc'[t] # "read2" /\ o2'[t].kind # "ok") =>
                    pc'[t] = "emitD"
            /\ (pc[t] \in { "emitD", "emitF" } /\ o2[t].kind # "ok") =>
                    ui_queue' = Append(ui_queue,
                        Event("data", "", << NoVal, o1[t].regs[1], o1[t].regs[2],
                                             o1[t].regs[3], o1[t].regs[4] >>)) ]_vars

\* the Data event of such a cycle is on the channel
C6_Witness ==
    /\ ui_queue # <<>>
    /\ ui_queue[1] = Event("data", "", << NoVal, 540, 380, 42, 1450 >>)

\* the text of the error a failed block read leaves its cycle with
C7_ErrorText(o) ==
    IF o.kind = "none" THEN "'NoneType' object has no attribute 'read_regs'"
    ELSE IF o.kind = "raise" THEN "Comm error: " \o o.text
    ELSE "VFD Exception: " \o decode_exception_code(o.code)

C8_TransportFaultsAreCommErrors ==
    /\ dout.kind \in { "raise", "err" } => derr = "Comm error: " \o dout.text
    /\ dout.kind = "exc" => derr = "VFD Exception: " \o decode_exception_code(dout.code)

\* the fixed table and the two-digit uppercase hexadecimal form, written out
C9_Digits == << "0", "1", "2", "3", "4", "5", "6", "7",
                "8", "9", "A", "B", "C", "D", "E", "F" >>

C9_Expected(c) ==
    CASE c = 1 -> "Illegal command"
      [] c = 2 -> "Illegal data address"
      [] c = 3 -> "Illegal value (bad frame)"
      [] c = 4 -> "Operation failed"
      [] c = 5 -> "Password error"
      [] c = 6 -> "Data frame error (CRC/format)"
      [] c = 7 -> "Write not allowed"
      [] c = 8 -> "Parameter cannot be changed during running"
      [] c = 9 -> "Password protection active"
      [] OTHER -> "Unknown exception code 0x" \o C9_Digits[(c \div 16) + 1]
                                              \o C9_Digits[(c % 16) + 1]

\* C9: decode_exception_code gives the table message for 0x01..0x09 and
\* "Unknown exception code 0xNN" (two uppercase hex digits) for every other
\* byte; a write answered with exception byte c fails with that message.
C9_DecodeTable ==
    dcode \in 0..255 =>
        /\ dmsg # NoText => dmsg = C9_Expected(dcode)
        /\ (dout.kind = "exc" /\ dout.req[1] = "write") =>
                derr = "VFD Exception: " \o C9_Expected(dcode)

\* byte 0x0A decoded, and a write answered with it has failed
C9_Witness ==
    /\ dcode = 10
    /\ dmsg = "Unknown exception code 0x0A"
    /\ dout.kind = "exc" /\ dout.req[1] = "write"
    /\ derr = "VFD Exception: Unknown exception code 0x0A"

\* C10: a control command or set-frequency task performs exactly one write
\* transaction: the command's mapped value to 0x2000, or the supplied raw
\* integer to 0x2001, and touches no other register.
C10_ExactlyOneMappedWrite ==
    \A t \in Jobs :
        pc[t] \in { "emitL", "emitF" } =>
            /\ o1[t].req = << "write",
                              IF task[t].kind = "control" THEN 8192 ELSE 8193,
                              task[t].value >>
            /\ task[t].kind = "control" => task[t].value \in { 1, 2, 5, 6, 7 }

\* Every write a task does perform is the mapped one.
JobWritesAreMapped ==
    \A t \in Jobs :
        (is_alive(t) /\ o1[t].kind # "none") =>
            /\ o1[t].req = << "write",
                              IF task[t].kind = "control" THEN 8192 ELSE 8193,
                              task[t].value >>
            /\ task[t].kind = "control" => task[t].value \in { 1, 2, 5, 6, 7 }

C12_ChannelFifoLossless ==
    /\ [] ( /\ seen \o ui_queue = put_log
            /\ ui_pc = "idle" =>
                  /\ Len(seen) >= tick_seen + Len(tick_pending)
                  /\ SubSeq(seen, tick_seen + 1, tick_seen + Len(tick_pending))
                        = tick_pending )
    /\ \A n \in 1..MaxPuts : (Len(put_log) >= n) ~> (Len(seen) >= n)

\* a tick that began with two events pending has dispatched them and a third
\* that arrived meanwhile, and has rescheduled itself
C12_Witness ==
    /\ ui_pc = "idle"
    /\ Len(tick_pending) = 2
    /\ tick_pending[1] # tick_pending[2]
    /\ Len(seen) = tick_seen + 3
    /\ ui_queue = <<>>

\* the texts of the faults among the events q, in order
RECURSIVE C13_Faults(_)
C13_Faults(q) ==
    IF q = <<>> THEN <<>>
    ELSE (IF Head(q).type = "fault" THEN << Head(q).msg >> ELSE <<>>)
         \o C13_Faults(Tail(q))

\* the texts f[i], from i on, that differ from the text just before them
RECURSIVE C13_RunHeads(_, _)
C13_RunHeads(f, i) ==
    IF i > Len(f) THEN <<>>
    ELSE (IF i = 1 \/ f[i] # f[i - 1] THEN << f[i] >> ELSE <<>>)
         \o C13_RunHeads(f, i + 1)

\* C13: every fault the consumer has processed is in the fault history, and
\* the popup was shown for exactly the faults whose text differs from the
\* text of the fault processed just before: a run of identical texts is
\* presented once.
C13_FaultDedup ==
    /\ fault_tree = C13_Faults(seen)
    /\ popups = C13_RunHeads(C13_Faults(seen), 1)

\* two identical faults then a different one: three rows, two popups
C13_Witness ==
    /\ Len(fault_tree) = 3
    /\ fault_tree[1] = fault_tree[2]
    /\ fault_tree[2] # fault_tree[3]
    /\ popups = << fault_tree[1], fault_tree[3] >>

\* C14: a connect() that returns holding a Transport has started the poll
\* loop: the system is never left connected without its poller.
C14_HeldConnectionHasPoller ==
    [][ (modbus = None /\ modbus' # None) =>
            /\ poll_thread' # None
            /\ pc'[poll_thread'] # "dead" ]_vars

\* C15: a cycle started at t0 with interval I whose work took e sleeps
\* max(0, I - e), never a negative time, so the next cycle starts at
\* t0 + max(I, e); for I = 500 and e = 150 the sleep is 350.
C15_DriftCompensatedSleep ==
    c_phase = "slept" =>
        /\ c_sleep >= 0
        /\ c_sleep = IF c_interval >= c_elapsed THEN c_interval - c_elapsed ELSE 0
        /\ c_now = c_t0 + IF c_interval >= c_elapsed THEN c_interval ELSE c_elapsed
        /\ (c_interval = 500 /\ c_elapsed = 150) => c_sleep = 350

\* a 500 ms cycle whose work took 150 ms has slept 350 ms
C15_Witness ==
    /\ c_phase = "slept"
    /\ c_interval = 500
    /\ c_elapsed = 150
    /\ c_sleep = 350
    /\ c_now = c_t0 + 500

\* the last call made on the Transport, and the one before it
LastOp == IF k_hist = <<>> THEN "" ELSE k_hist[Len(k_hist)]
LastButOneOp == IF Len(k_hist) < 2 THEN "" ELSE k_hist[Len(k_hist) - 1]
IsClose(op) == op \in { "close ok", "close failed" }

\* C16: close() never raises and leaves the Transport closed, whether it was
\* open, already closed or never opened, also when the handle's own close
\* fails; a second close() leaves the state of the first.
C16_CloseIdempotent ==
    /\ ~k_raised
    /\ IsClose(LastOp) => k_handle # "open"
    /\ (IsClose(LastOp) /\ IsClose(LastButOneOp)) => k_handle = k_prev

\* No exception leaves close(); a close() whose handle close succeeded leaves
\* the Transport closed, and a close() after it changes nothing.
CloseReturnsNormally ==
    /\ ~k_raised
    /\ LastOp = "close ok" => k_handle # "open"
    /\ (IsClose(LastOp) /\ LastButOneOp = "close ok") => k_handle = k_prev

\* the event the loop put last
LastEvent == y_events[Len(y_events)]

\* C17: the frequency of every Data event is the scaled value (raw / 100) of
\* the frequency register read in the same cycle, or absent when that read
\* failed; it is never the value of an earlier cycle.
C17_NoStaleFrequency ==
    (y_pc = "top" /\ y_events # <<>> /\ LastEvent.type = "data") =>
        /\ y_o1.kind = "ok"
        /\ LastEvent.data[1] =
              IF y_o2.kind = "ok"
              THEN << y_o2.regs[1] \div 100, y_o2.regs[1] % 100 >>
              ELSE NoVal

\* a cycle that read 50.00 Hz, then a cycle whose frequency read failed and
\* whose Data event has no frequency
C17_Witness ==
    /\ y_pc = "top"
    /\ Len(y_events) = 2
    /\ y_events[1] = Event("data", "", << << 50, 0 >>, 540, 380, 42, 1450 >>)
    /\ y_events[2] = Event("data", "", << NoVal, 540, 380, 42, 1450 >>)
    /\ y_o2.kind = "raise"

\* C18: close() runs in the Transport's exclusive section: a Transport is
\* never closed while a read_regs / write_reg transaction is in flight on
\* it, so disconnect() waits for the transaction to finish.
C18_CloseWaitsForTransaction ==
    [][ \A m \in Transports : (opened[m] /\ ~opened'[m]) =>
            /\ lock[m] = Unlocked
            /\ \A t \in Threads : InSection(t) => tm[t] # m ]_vars

\* disconnect() has reached modbus.close() and is waiting: the poll loop's
\* transaction on the held Transport is in flight
C18_Witness ==
    /\ ui_pc = "d_close"
    /\ modbus # None
    /\ opened[modbus]
    /\ \E t \in Pollers : InSection(t) /\ tm[t] = modbus /\ lock[modbus] = t

\* C19: no register transaction runs on a Transport whose close() has
\* completed: neither the poll loop nor a task spawned or waiting for the bus
\* before the disconnect reads or writes on the closed handle.
C19_NoTransactionAfterClose ==
    \A t \in Threads : InSection(t) => opened[tm[t]]

\* C20: every Fault the poll loop is about to put stems from a block-read
\* transaction that failed with a comm or protocol error in that cycle; a
\* concurrent disconnect() never makes the loop put a Fault.
C20_PollFaultsAreReadFailures ==
    \A t \in Pollers :
        pc[t] = "emitF" =>
            /\ o1[t].kind \in { "raise", "exc" }
            /\ o1[t].req = << "read", 12290, 4 >>

====
